---- MODULE Spec2Model ----
(***************************************************************************)
(* Model of cogs/cmd_errors.py: the CmdErrors cog, i.e. the global         *)
(* on_command_error listener and its helper log_traceback.                 *)
(*                                                                         *)
(* One invocation of the listener is modelled at a time (the cog keeps no  *)
(* state between invocations).  The listener is a coroutine: every `await` *)
(* is a suspension point whose outcome (normal return or a raised          *)
(* exception) is decided by the outside world, so every await is one       *)
(* action with a nondeterministic outcome, and the synchronous code up to  *)
(* an await belongs to the action that precedes it.                        *)
(*                                                                         *)
(* Text is modelled as TLA+ strings; the str methods the code uses         *)
(* (replace, title, join, format) are operators computed character by      *)
(* character.                                                              *)
(***************************************************************************)
EXTENDS Integers, Sequences, FiniteSets, TLC

VARIABLES
    pc,         \* position of the coroutine
    ctx,        \* the invocation context handed in by the framework
    error,      \* the local variable `error` (rebound at line 24)
    bot,        \* self.bot: readiness, log channel, developer registry
    msg,        \* argument of the pending ctx.send
    after,      \* where control goes when the pending await returns normally
    replies,    \* texts passed to ctx.send, in call order
    dms,        \* texts passed to ctx.author.send, in call order
    reinvokes,  \* number of ctx.reinvoke() calls
    logCalls,   \* number of log_traceback calls
    critical,   \* entries written with logger.critical, in order
    logsent,    \* embeds delivered to the developer log channel, in order, each with
                \* the name of the local variable that held it
    caught,     \* exceptions caught by an except clause of the handler, in order
    raised      \* the exception leaving on_command_error and the await that raised it

vars == <<pc, ctx, error, bot, msg, after, replies, dms, reinvokes,
          logCalls, critical, logsent, caught, raised>>

----------------------------------------------------------------------------
(* Bounds of the model. *)

\* longest error.missing_perms list
MaxPerms == 3

\* largest retry_after, in tenths of a second
MaxRetryTenths == 12

----------------------------------------------------------------------------
(* Characters and the str methods used at lines 38-42 and 71-75. *)

LowerCase == "abcdefghijklmnopqrstuvwxyz"

UpperCase == "ABCDEFGHIJKLMNOPQRSTUVWXYZ"

CharAt(s, i) == SubSeq(s, i, i)

LowerChars == { CharAt(LowerCase, i) : i \in 1..Len(LowerCase) }

UpperChars == { CharAt(UpperCase, i) : i \in 1..Len(UpperCase) }

\* str.upper() and str.lower() on the cased characters
UpperOf == [ch \in LowerChars |->
               CharAt(UpperCase, CHOOSE i \in 1..Len(LowerCase) : CharAt(LowerCase, i) = ch)]

LowerOf == [ch \in UpperChars |->
               CharAt(LowerCase, CHOOSE i \in 1..Len(UpperCase) : CharAt(UpperCase, i) = ch)]

IsCased(ch) == ch \in LowerChars \/ ch \in UpperChars

ToUpper(ch) == IF ch \in LowerChars THEN UpperOf[ch] ELSE ch

ToLower(ch) == IF ch \in UpperChars THEN LowerOf[ch] ELSE ch

\* str.replace(old, new): leftmost non-overlapping occurrences, left to right
RECURSIVE Replace(_, _, _)
Replace(s, old, new) ==
    IF Len(s) < Len(old) THEN s
    ELSE IF SubSeq(s, 1, Len(old)) = old
         THEN new \o Replace(SubSeq(s, Len(old) + 1, Len(s)), old, new)
         ELSE CharAt(s, 1) \o Replace(SubSeq(s, 2, Len(s)), old, new)

\* str.title(): a cased character is upper-cased when the character before it
\* is uncased (or there is none), lower-cased otherwise
RECURSIVE TitleFrom(_, _)
TitleFrom(s, prevCased) ==
    IF s = "" THEN ""
    ELSE LET ch == CharAt(s, 1)
         IN  (IF prevCased THEN ToLower(ch) ELSE ToUpper(ch))
                 \o TitleFrom(SubSeq(s, 2, Len(s)), IsCased(ch))

Title(s) == TitleFrom(s, FALSE)

\* sep.join(items)
RECURSIVE Join(_, _)
Join(sep, items) ==
    IF items = <<>> THEN ""
    ELSE IF Len(items) = 1 THEN items[1]
    ELSE items[1] \o sep \o Join(sep, Tail(items))

\* substring test, used to state what a reply contains
Contains(s, sub) ==
    \E i \in 1..(Len(s) - Len(sub) + 1) : SubSeq(s, i, i + Len(sub) - 1) = sub

----------------------------------------------------------------------------
(* Permission-list formatting, lines 38-42 and 71-75. *)

\* perm.replace("_", " ").replace("guild", "server").title()
NormalizePerm(perm) == Title(Replace(Replace(perm, "_", " "), "guild", "server"))

\* "{}, and {}".format("**, **".join(missing[:-1]), missing[-1])
FormatMany(missing) ==
    Join("**, **", SubSeq(missing, 1, Len(missing) - 1)) \o ", and " \o missing[Len(missing)]

\* " and ".join(missing)
FormatFew(missing) == Join(" and ", missing)

\* FormatMissing with the length test off by one (len(missing) >= 2)
FormatMissingOffByOne(missing_perms) ==
    LET missing == [i \in 1..Len(missing_perms) |-> NormalizePerm(missing_perms[i])]
    IN  IF Len(missing) >= 2 THEN FormatMany(missing) ELSE FormatFew(missing)

\* the value of `fmt` for a given error.missing_perms
FormatMissing(missing_perms) ==
    LET missing == [i \in 1..Len(missing_perms) |-> NormalizePerm(missing_perms[i])]
    IN  IF Len(missing) > 2 THEN FormatMany(missing) ELSE FormatFew(missing)

----------------------------------------------------------------------------
(* Errors.  An error carries its class, its str() and the attributes the   *)
(* handler reads; `original` is <<>> when the attribute is absent.         *)

Error(cls, text) ==
    [cls |-> cls, text |-> text, original |-> <<>>, missing_perms |-> <<>>,
     retry_after |-> 0, code |-> 0, message |-> ""]

NoError == Error("", "")

\* base class of each exception class the handler can meet
BaseOf(cls) ==
    CASE cls \in {"CommandNotFound", "DisabledCommand", "CommandOnCooldown",
                  "UserInputError", "CheckFailure", "CommandInvokeError"}
                                                      -> "CommandError"
      [] cls \in {"MissingRequiredArgument", "BadArgument"}
                                                      -> "UserInputError"
      [] cls \in {"BotMissingPermissions", "MissingPermissions",
                  "NoPrivateMessage", "NotOwner"}     -> "CheckFailure"
      [] cls = "Forbidden"                            -> "HTTPException"
      [] cls \in {"CommandError", "HTTPException"}    -> "DiscordException"
      [] OTHER                                        -> "Exception"

\* the exception classes of helpers.errors, each with a `message` attribute
HelperErrors == {"RoleNotFound", "DefaultGuildRoleNotSet", "DatabaseMissingData"}

RECURSIVE IsSubclass(_, _)
IsSubclass(cls, of) ==
    \/ cls = of
    \/ cls # "Exception" /\ IsSubclass(BaseOf(cls), of)

\* isinstance(e, cls)
IsInstance(e, cls) == IsSubclass(e.cls, cls)

\* getattr(error, "original", error)
Original(e) == IF e.original # <<>> THEN e.original[1] ELSE e

\* math.ceil(retry_after), retry_after counted in tenths of a second
Ceil(tenths) == (tenths + 9) \div 10

----------------------------------------------------------------------------
(* The inputs the framework can deliver. *)

Perms == {"manage_guild", "manage_roles", "administrator", "kick_members"}

PermLists ==
    UNION { { p \in [1..n -> Perms] : \A i, j \in 1..n : i # j => p[i] # p[j] }
            : n \in 1..MaxPerms }

PermissionErrors ==
    { [Error(c, "Missing permission(s) to run command.") EXCEPT !.missing_perms = p]
        : c \in {"BotMissingPermissions", "MissingPermissions"}, p \in PermLists }

CooldownErrors ==
    { [Error("CommandOnCooldown", "You are on cooldown.") EXCEPT !.retry_after = t]
        : t \in 1..MaxRetryTenths }

ForbiddenErrors ==
    { [Error("Forbidden", "403 FORBIDDEN (error code: " \o ToString(c) \o ")")
          EXCEPT !.code = c] : c \in {50013, 50007, 50001} }

HelperErrorValues ==
    { [Error(c, "No data for guild") EXCEPT !.message = "No data for guild"]
        : c \in HelperErrors }

CommandErrors ==
    { Error("CommandNotFound", "Command \"lincense\" is not found"),
      Error("DisabledCommand", "redeem command is disabled"),
      Error("MissingRequiredArgument", "license is a required argument that is missing."),
      Error("BadArgument", "Member \"x\" not found"),
      Error("NoPrivateMessage", "This command cannot be used in private messages."),
      Error("CheckFailure", "The check functions for command redeem failed."),
      Error("NotOwner", "You do not own this bot."),
      Error("CommandError", "Unexpected quote mark") }

\* what a command body can raise; the framework wraps these
BodyErrors ==
    ForbiddenErrors \cup HelperErrorValues
        \cup { Error("ValueError", "invalid literal for int()"),
               Error("HTTPException", "500 Internal Server Error") }

CommandInvokeError(e) ==
    [Error("CommandInvokeError",
           "Command raised an exception: " \o e.cls \o ": " \o e.text)
        EXCEPT !.original = <<e>>]

RaisedErrors ==
    CommandErrors \cup PermissionErrors \cup CooldownErrors \cup BodyErrors
        \cup { CommandInvokeError(e) : e \in BodyErrors }

Commands == {"redeem", "generate"}

Authors == {1, 2}

Contexts ==
    [command : Commands, has_on_error : BOOLEAN, author : Authors]

NoContext == [command |-> "", has_on_error |-> FALSE, author |-> 0]

\* bot.config.get_developers(): a dict from developer name to id
DeveloperDicts ==
    { [n \in {} |-> 0],
      [n \in {"boaty"} |-> 1],
      [n \in {"boaty", "jra"} |-> IF n = "boaty" THEN 1 ELSE 3] }

Bots ==
    [ready : BOOLEAN, log_channel : {"None", "channel"}, developers : DeveloperDicts]

\* outcomes of a Messageable.send
SendOutcomes == {"ok", "Forbidden", "HTTPException"}

\* the exception a failed send raises
SendError(outcome) == Error(outcome, "Cannot send messages")

\* what ctx.reinvoke() can raise
ReinvokeErrors ==
    { Error("CheckFailure", "The check functions for command redeem failed."),
      Error("ValueError", "invalid literal for int()") }

----------------------------------------------------------------------------
(* The synchronous part of on_command_error: lines 19-123 up to the first  *)
(* await.  A plan names the first await, the text it sends and what        *)
(* follows it.                                                             *)

\* HasLocalHandler looking at the context instead of the command: never true
HasLocalHandlerOnContext(c) == c.has_on_error /\ c.command = ""

\* hasattr(ctx.command, "on_error")
HasLocalHandler(c) == c.has_on_error

\* IsDeveloper looking among the dict's keys instead of its values
IsDeveloperByKey(c, b) == \E n \in DOMAIN b.developers : n = ToString(c.author)

\* ctx.message.author.id in self.bot.config.get_developers().values()
IsDeveloper(c, b) == \E n \in DOMAIN b.developers : b.developers[n] = c.author

\* await ctx.send(text); return
Reply(text) == [pc |-> "ctx_send", msg |-> text, after |-> <<>>]

\* lines 38-44
BotMissingPermissionsMessage(e) ==
    "I need the **" \o FormatMissing(e.missing_perms) \o "** permission(s) to run this command."

\* lines 71-77
MissingPermissionsMessage(e) ==
    "You need the **" \o FormatMissing(e.missing_perms) \o "** permission(s) to use this command."

\* line 62
CooldownMessage(e) ==
    "This command is on cooldown, please retry in " \o ToString(Ceil(e.retry_after)) \o "s."

\* lines 95-106
ForbiddenMessage(e) ==
    IF e.code = 50013
    THEN e.text \o ".\n" \o "Check role hierarchy - I can only manage roles below me."
    ELSE IF e.code = 50007
    THEN e.text \o ".\n" \o "Hint: Disabled DMs?"
    ELSE e.text \o "."

\* lines 122-123
IgnoringMessage(c, e) ==
    "Ignoring exception **" \o e.cls \o "** that happened while processing command **"
        \o c.command \o "**:\n" \o e.text

\* lines 51-63
CooldownPlan(c, e, b) ==
    IF IsDeveloper(c, b)
    THEN [pc |-> "ctx_reinvoke", msg |-> "", after |-> <<>>]
    ELSE Reply(CooldownMessage(e))

\* lines 84-89
NoPrivateMessagePlan ==
    [pc |-> "author_send", msg |-> "This command cannot be used in direct messages.",
     after |-> <<>>]

\* lines 116-119
DatabaseMissingDataPlan(e) ==
    [pc |-> "ctx_send", msg |-> "Critical database error: " \o e.message,
     after |-> <<"log_traceback">>]

\* lines 121-123
FallbackPlan(c, e) ==
    [pc |-> "log_traceback", msg |-> IgnoringMessage(c, e), after |-> <<"ctx_send">>]

\* the isinstance chain, lines 26-123: first match wins
Plan(c, e, b) ==
    IF IsInstance(e, "CommandNotFound") THEN Reply("Command not found.")
    ELSE IF IsInstance(e, "BotMissingPermissions") THEN Reply(BotMissingPermissionsMessage(e))
    ELSE IF IsInstance(e, "DisabledCommand") THEN Reply("This command has been disabled.")
    ELSE IF IsInstance(e, "CommandOnCooldown") THEN CooldownPlan(c, e, b)
    ELSE IF IsInstance(e, "MissingPermissions") THEN Reply(MissingPermissionsMessage(e))
    ELSE IF IsInstance(e, "UserInputError") THEN Reply("Invalid command input: " \o e.text)
    ELSE IF IsInstance(e, "NoPrivateMessage") THEN NoPrivateMessagePlan
    ELSE IF IsInstance(e, "CheckFailure")
         THEN Reply("You do not have permission to use this command.")
    ELSE IF IsInstance(e, "Forbidden") THEN Reply(ForbiddenMessage(e))
    ELSE IF IsInstance(e, "RoleNotFound") THEN Reply(e.message)
    ELSE IF IsInstance(e, "DefaultGuildRoleNotSet")
         THEN Reply("Trying to use default guild license but: " \o e.message)
    ELSE IF IsInstance(e, "DatabaseMissingData") THEN DatabaseMissingDataPlan(e)
    ELSE FallbackPlan(c, e)

----------------------------------------------------------------------------
(* log_traceback, lines 125-137. *)

\* f"Ignoring {error_type} exception in command '{ctx.command}':{error}"
exception_message(c, e) ==
    "Ignoring <class '" \o e.cls \o "'> exception in command '" \o c.command
        \o "':" \o e.text

\* traceback.format_exception(...), its lines in one string
traceback_message(e) ==
    "Traceback (most recent call last):\n" \o e.cls \o ": " \o e.text \o "\n"

\* embed_handler.log_embed(exception_message, ctx=ctx, title="Command error!")
log_embed(text, c, title) ==
    [title |-> title, description |-> text, author |-> c.author]

\* embed_handler.traceback_embed(traceback_message)
traceback_embed(text) ==
    [title |-> "Traceback", description |-> text, author |-> 0]

\* ChannelDelivery without the None test of line 135
ChannelDeliveryUnchecked(b) == b.ready

\* ChannelDelivery without the is_ready test of line 131
ChannelDeliveryUnready(b) == b.log_channel # "None"

\* lines 131 and 135: the two sends are reached
ChannelDelivery(b) == b.ready /\ b.log_channel # "None"

----------------------------------------------------------------------------
(* The state machine. *)

NotRaised == [cls |-> "none", at |-> "none"]

Init ==
    /\ pc = "idle"
    /\ ctx = NoContext
    /\ error = NoError
    /\ bot = [ready |-> FALSE, log_channel |-> "None", developers |-> [n \in {} |-> 0]]
    /\ msg = ""
    /\ after = <<>>
    /\ replies = <<>>
    /\ dms = <<>>
    /\ reinvokes = 0
    /\ logCalls = 0
    /\ critical = <<>>
    /\ logsent = <<>>
    /\ caught = <<>>
    /\ raised = NotRaised

\* the framework fires the command_error event
Dispatch ==
    /\ pc = "idle"
    /\ \E c \in Contexts, e \in RaisedErrors, b \in Bots :
          /\ ctx' = c
          /\ error' = e
          /\ bot' = b
    /\ pc' = "called"
    /\ UNCHANGED <<msg, after, replies, dms, reinvokes, logCalls, critical, logsent,
                   caught, raised>>

\* control after an await (or log_traceback) returned normally
Continue ==
    IF after = <<>>
    THEN pc' = "returned" /\ after' = after
    ELSE pc' = Head(after) /\ after' = Tail(after)

\* an exception of class cls leaves on_command_error
Raise(cls) ==
    /\ pc' = "raised"
    /\ raised' = [cls |-> cls, at |-> pc]
    /\ after' = after

\* lines 19-123, up to the first await
on_command_error ==
    /\ pc = "called"
    /\ IF HasLocalHandler(ctx)
       THEN /\ pc' = "returned"
            /\ UNCHANGED <<error, msg, after>>
       ELSE LET plan == Plan(ctx, Original(error), bot)
            IN  /\ error' = Original(error)
                /\ pc' = plan.pc
                /\ msg' = plan.msg
                /\ after' = plan.after
    /\ UNCHANGED <<ctx, bot, replies, dms, reinvokes, logCalls, critical, logsent,
                   caught, raised>>

\* await ctx.send(msg)
ctx_send ==
    /\ pc = "ctx_send"
    /\ replies' = Append(replies, msg)
    /\ \E outcome \in SendOutcomes :
          IF outcome = "ok"
          THEN Continue /\ UNCHANGED raised
          ELSE Raise(outcome)
    /\ UNCHANGED <<ctx, error, bot, msg, dms, reinvokes, logCalls, critical, logsent, caught>>

\* ctx_reinvoke without the try/except around reinvoke()
ctx_reinvoke_unguarded ==
    /\ pc = "ctx_reinvoke"
    /\ reinvokes' = reinvokes + 1
    /\ \/ pc' = "returned" /\ UNCHANGED <<after, raised>>
       \/ \E e \in ReinvokeErrors : Raise(e.cls)
    /\ UNCHANGED <<ctx, error, bot, msg, replies, dms, logCalls, critical, logsent, caught>>

\* lines 56-60: try: await ctx.reinvoke() / except Exception as e: await ctx.send(e)
ctx_reinvoke ==
    /\ pc = "ctx_reinvoke"
    /\ reinvokes' = reinvokes + 1
    /\ \/ pc' = "returned" /\ UNCHANGED <<msg, caught>>
       \/ \E e \in ReinvokeErrors :
             /\ caught' = Append(caught, e)
             /\ msg' = e.text
             /\ pc' = "ctx_send"
    /\ UNCHANGED <<ctx, error, bot, after, replies, dms, logCalls, critical, logsent, raised>>

\* author_send with a bare `except Exception: pass`
author_send_swallow_all ==
    /\ pc = "author_send"
    /\ dms' = Append(dms, msg)
    /\ \E outcome \in SendOutcomes :
          IF outcome = "ok"
          THEN Continue /\ UNCHANGED <<caught, raised>>
          ELSE Continue /\ caught' = Append(caught, SendError(outcome)) /\ UNCHANGED raised
    /\ UNCHANGED <<ctx, error, bot, msg, replies, reinvokes, logCalls, critical, logsent>>

\* lines 85-89: try: await ctx.author.send(...) / except discord.Forbidden: pass
author_send ==
    /\ pc = "author_send"
    /\ dms' = Append(dms, msg)
    /\ \E outcome \in SendOutcomes :
          IF outcome = "ok"
          THEN Continue /\ UNCHANGED <<caught, raised>>
          ELSE IF outcome = "Forbidden"
          THEN Continue /\ caught' = Append(caught, SendError(outcome)) /\ UNCHANGED raised
          ELSE Raise(outcome) /\ UNCHANGED caught
    /\ UNCHANGED <<ctx, error, bot, msg, replies, reinvokes, logCalls, critical, logsent>>

\* lines 125-135: the synchronous part of log_traceback
log_traceback ==
    /\ pc = "log_traceback"
    /\ logCalls' = logCalls + 1
    /\ critical' = critical \o <<exception_message(ctx, error), traceback_message(error)>>
    /\ IF ChannelDelivery(bot)
       THEN pc' = "log_send_embed" /\ after' = after
       ELSE Continue
    /\ UNCHANGED <<ctx, error, bot, msg, replies, dms, reinvokes, logsent, caught, raised>>

\* await log_channel.send(embed=<name>): None has no send
log_channel_send(name, value, next) ==
    /\ IF bot.log_channel = "None"
       THEN Raise("AttributeError") /\ UNCHANGED logsent
       ELSE \E outcome \in SendOutcomes :
               IF outcome = "ok"
               THEN /\ logsent' = Append(logsent, [embed |-> name, value |-> value])
                    /\ IF next = "return" THEN Continue ELSE pc' = next /\ after' = after
                    /\ UNCHANGED raised
               ELSE Raise(outcome) /\ UNCHANGED logsent
    /\ UNCHANGED <<ctx, error, bot, msg, replies, dms, reinvokes, logCalls, critical, caught>>

\* line 136
log_send_embed ==
    /\ pc = "log_send_embed"
    /\ log_channel_send("embed",
                        log_embed(exception_message(ctx, error), ctx, "Command error!"),
                        "log_send_traceback")

\* line 137
log_send_traceback ==
    /\ pc = "log_send_traceback"
    /\ log_channel_send("traceback_embed", traceback_embed(traceback_message(error)),
                        "return")

\* the framework is done with the event; nothing is kept for the next one
Complete ==
    /\ pc \in {"returned", "raised"}
    /\ pc' = "idle"
    /\ ctx' = NoContext
    /\ error' = NoError
    /\ bot' = [ready |-> FALSE, log_channel |-> "None", developers |-> [n \in {} |-> 0]]
    /\ msg' = ""
    /\ after' = <<>>
    /\ replies' = <<>>
    /\ dms' = <<>>
    /\ reinvokes' = 0
    /\ logCalls' = 0
    /\ critical' = <<>>
    /\ logsent' = <<>>
    /\ caught' = <<>>
    /\ raised' = NotRaised

Next ==
    \/ Dispatch
    \/ on_command_error
    \/ ctx_send
    \/ ctx_reinvoke
    \/ author_send
    \/ log_traceback
    \/ log_send_embed
    \/ log_send_traceback
    \/ Complete

Spec == Init /\ [][Next]_vars

----------------------------------------------------------------------------
(* Vocabulary of the properties. *)

\* on_command_error has run its synchronous part
Started == pc \notin {"idle", "called"}

\* on_command_error has returned or raised
Finished == pc \in {"returned", "raised"}

\* the command has no local error handler
Global == ~ctx.has_on_error

\* the author's id is one of the registry's values
AuthorIsDeveloper == \E n \in DOMAIN bot.developers : bot.developers[n] = ctx.author

\* the classes the isinstance chain names
ClassifiedClasses ==
    {"CommandNotFound", "BotMissingPermissions", "DisabledCommand", "CommandOnCooldown",
     "MissingPermissions", "UserInputError", "NoPrivateMessage", "CheckFailure",
     "Forbidden", "RoleNotFound", "DefaultGuildRoleNotSet", "DatabaseMissingData"}

Unclassified(e) == \A k \in ClassifiedClasses : ~IsSubclass(e.cls, k)

\* the least whole number of seconds that is no less than `tenths` tenths
WholeSecondsUp(tenths) == CHOOSE n \in 0..tenths : 10 * n >= tenths /\ 10 * (n - 1) < tenths

LogSends == {"log_send_embed", "log_send_traceback"}

\* the exception leaving the handler was raised inside log_traceback
LogTracebackFailed == raised.at \in LogSends

SomeReply(P(_)) == \E i \in 1..Len(replies) : P(replies[i])

IsCooldownReply(text) == Contains(text, "This command is on cooldown")

----------------------------------------------------------------------------
(* C1: for CommandOnCooldown without a local handler, a developer's         *)
(* command is re-invoked and the cooldown message is never sent; anybody    *)
(* else gets "This command is on cooldown, please retry in {ceil}s." and    *)
(* the command is never re-invoked.                                         *)
C1_CooldownBypass ==
    (Started /\ Global /\ error.cls = "CommandOnCooldown") =>
        IF AuthorIsDeveloper
        THEN /\ ~SomeReply(IsCooldownReply)
             /\ msg = "" \/ ~IsCooldownReply(msg)
             /\ IF pc = "ctx_reinvoke" THEN reinvokes = 0 ELSE reinvokes = 1
        ELSE /\ reinvokes = 0
             /\ pc # "ctx_reinvoke"
             /\ msg = "This command is on cooldown, please retry in "
                        \o ToString(WholeSecondsUp(error.retry_after)) \o "s."
             /\ IF pc = "ctx_send" THEN replies = <<>> ELSE replies = <<msg>>

C1_Witness ==
    /\ pc = "returned" /\ Global /\ error.cls = "CommandOnCooldown"
    /\ AuthorIsDeveloper /\ reinvokes = 1 /\ replies = <<>>

(* C2: for an unclassified error without a local handler, every execution   *)
(* calls log_traceback and sends a reply naming the error's type and the    *)
(* command.                                                                 *)
C2_UnclassifiedAlwaysReported ==
    (Finished /\ Global /\ Unclassified(error)) =>
        /\ logCalls = 1
        /\ \E i \in 1..Len(replies) :
              /\ Contains(replies[i], error.cls)
              /\ Contains(replies[i], ctx.command)

(* C3: a failure of log_traceback (a send to the diagnostic channel raises) *)
(* does not leave on_command_error, and the user-facing reply of that error *)
(* is still sent.                                                           *)
C3_LoggingFailureIsolated ==
    (Finished /\ logCalls > 0) =>
        /\ ~LogTracebackFailed
        /\ replies # <<>>

(* C4: when the command has its own error handler, on_command_error has no  *)
(* effect at all: no reply, no direct message, no re-invocation, no         *)
(* critical log, no diagnostic-channel delivery.                            *)
C4_LocalHandlerDefers ==
    (Started /\ ctx.has_on_error) =>
        /\ pc = "returned"
        /\ replies = <<>> /\ dms = <<>> /\ reinvokes = 0
        /\ logCalls = 0 /\ critical = <<>> /\ logsent = <<>>
        /\ caught = <<>> /\ raised = NotRaised

C4_Witness ==
    /\ pc = "returned" /\ ctx.has_on_error
    /\ error.cls = "CommandInvokeError" /\ error.original[1].cls = "DatabaseMissingData"
    /\ bot.ready /\ bot.log_channel = "channel"

(* C5: DatabaseMissingData gets both a reply with the error's message and a *)
(* log_traceback call; RoleNotFound gets only the reply.                    *)
C5_DatabaseLoggedRoleNot ==
    (Finished /\ Global) =>
        /\ error.cls = "DatabaseMissingData" =>
              /\ \E i \in 1..Len(replies) : Contains(replies[i], error.message)
              /\ logCalls = 1
        /\ error.cls = "RoleNotFound" =>
              /\ replies = <<error.message>>
              /\ logCalls = 0

(* C6: when get_channel returns None, bot ready or not, log_traceback       *)
(* writes the critical log, sends nothing to a channel and raises nothing.  *)
C6_UnresolvedChannel ==
    (bot.log_channel = "None" /\ logCalls > 0) =>
        /\ logCalls = 1
        /\ Len(critical) = 2
        /\ Contains(critical[1], error.cls) /\ Contains(critical[1], ctx.command)
        /\ Contains(critical[1], error.text) /\ Contains(critical[2], "Traceback")
        /\ logsent = <<>>
        /\ pc \notin LogSends
        /\ ~LogTracebackFailed

C6_Witness ==
    /\ bot.log_channel = "None" /\ bot.ready
    /\ logCalls = 1 /\ Len(critical) = 2 /\ logsent = <<>>
    /\ pc = "returned" /\ raised = NotRaised

----------------------------------------------------------------------------
(* Permission lists as the properties read them. *)

\* the normalized name of each permission of the model
ExpectedName(perm) ==
    CASE perm = "manage_guild"  -> "Manage Server"
      [] perm = "manage_roles"  -> "Manage Roles"
      [] perm = "administrator" -> "Administrator"
      [] perm = "kick_members"  -> "Kick Members"

\* the names but the last, each followed by sep
RECURSIVE Leading(_, _, _)
Leading(perms, n, sep) ==
    IF n = 0 THEN "" ELSE Leading(perms, n - 1, sep) \o ExpectedName(perms[n]) \o sep

\* one name; "A and B"; all but the last joined by sep, then ", and {last}"
ExpectedList(perms, sep) ==
    LET n == Len(perms)
    IN  CASE n = 1 -> ExpectedName(perms[1])
          [] n = 2 -> ExpectedName(perms[1]) \o " and " \o ExpectedName(perms[2])
          [] n > 2 -> Leading(perms, n - 2, sep) \o ExpectedName(perms[n - 1])
                          \o ", and " \o ExpectedName(perms[n])

PermissionReply(e, sep) ==
    IF e.cls = "BotMissingPermissions"
    THEN "I need the **" \o ExpectedList(e.missing_perms, sep)
             \o "** permission(s) to run this command."
    ELSE "You need the **" \o ExpectedList(e.missing_perms, sep)
             \o "** permission(s) to use this command."

IsPermissionError == error.cls \in {"BotMissingPermissions", "MissingPermissions"}

(* C7 as claimed: the list in the reply is the single name, "A and B", or   *)
(* the names but the last joined by ", " followed by ", and {last}".        *)
C7_ListJoinedByComma ==
    (Started /\ Global /\ IsPermissionError) =>
        /\ msg = PermissionReply(error, ", ")
        /\ replies \in {<<>>, <<msg>>}

(* C7 amended: as claimed, except that for three or more names the names    *)
(* but the last are joined by "**, **" (each is closed and reopened in      *)
(* bold), followed by ", and {last}".                                       *)
C7_ListJoinedByBoldComma ==
    (Started /\ Global /\ IsPermissionError) =>
        /\ msg = PermissionReply(error, "**, **")
        /\ replies \in {<<>>, <<msg>>}
        /\ Finished => replies = <<msg>>

C7_Witness ==
    /\ pc = "returned" /\ Global /\ error.cls = "MissingPermissions"
    /\ error.missing_perms = <<"manage_guild", "kick_members", "administrator">>
    /\ replies = <<"You need the **Manage Server**, **Kick Members, and Administrator"
                     \o "** permission(s) to use this command.">>

----------------------------------------------------------------------------
(* C8: on the cooldown bypass, an error raised by the re-invocation is      *)
(* caught, its text is sent once as the reply, the command is not invoked   *)
(* again and the error does not leave on_command_error; when the            *)
(* re-invocation succeeds nothing is sent.                                  *)
C8_ReinvokeErrorReplied ==
    (Started /\ Global /\ error.cls = "CommandOnCooldown" /\ AuthorIsDeveloper) =>
        /\ reinvokes <= 1
        /\ raised.at # "ctx_reinvoke"
        /\ Len(caught) <= 1
        /\ pc = "ctx_send" => /\ Len(caught) = 1 /\ msg = caught[1].text /\ replies = <<>>
        /\ Finished =>
              /\ reinvokes = 1
              /\ IF caught = <<>>
                 THEN replies = <<>> /\ raised = NotRaised
                 ELSE replies = <<caught[1].text>> /\ caught[1] \in ReinvokeErrors

C8_Witness ==
    /\ pc = "returned" /\ Global /\ error.cls = "CommandOnCooldown" /\ AuthorIsDeveloper
    /\ reinvokes = 1 /\ Len(caught) = 1 /\ replies = <<caught[1].text>>
    /\ raised = NotRaised

(* C9: for NoPrivateMessage nothing goes to the channel and one direct      *)
(* message is attempted; a Forbidden from it is swallowed and handling ends *)
(* normally, any other failure of it leaves the handler.                    *)
C9_DirectMessageForbiddenOnly ==
    (Started /\ Global /\ error.cls = "NoPrivateMessage") =>
        /\ replies = <<>>
        /\ IF pc = "author_send"
           THEN dms = <<>>
           ELSE dms = <<"This command cannot be used in direct messages.">>
        /\ \A i \in 1..Len(caught) : caught[i].cls = "Forbidden"
        /\ Len(caught) <= 1
        /\ caught # <<>> => pc = "returned" /\ raised = NotRaised
        /\ pc = "raised" => raised.at = "author_send" /\ raised.cls = "HTTPException"

C9_Witness ==
    /\ pc = "returned" /\ Global /\ error.cls = "NoPrivateMessage"
    /\ Len(caught) = 1 /\ caught[1].cls = "Forbidden"
    /\ Len(dms) = 1 /\ replies = <<>>

(* C10: embeds reach the diagnostic channel only when the bot is ready and  *)
(* the channel resolves; the summary goes before the traceback, each at     *)
(* most once, so the traceback is delivered only after the summary; and the *)
(* critical log is written before any send to the channel.                  *)
C10_SummaryThenTraceback ==
    /\ Len(logsent) <= 2
    /\ Len(logsent) >= 1 => logsent[1].embed = "embed"
    /\ Len(logsent) = 2 => logsent[2].embed = "traceback_embed"
    /\ (logsent # <<>> \/ pc \in LogSends) =>
          /\ bot.ready /\ bot.log_channel # "None"
          /\ logCalls = 1 /\ Len(critical) = 2
    /\ pc = "log_send_embed" => logsent = <<>>
    /\ pc = "log_send_traceback" => Len(logsent) = 1

C10_Witness ==
    /\ pc = "raised" /\ raised.at = "log_send_traceback"
    /\ Len(logsent) = 1 /\ logsent[1].embed = "embed"

====
